---- MODULE Spec2Model ----
(***************************************************************************)
(* Model of the leaflink Profile contract (src/src/lib.rs).                *)
(*                                                                         *)
(* The contract is one Profile struct kept under the STATE key of its      *)
(* account by near_bindgen, plus the key/value storage of that account in  *)
(* which the eight UnorderedSet collections keep their entries.  Byte      *)
(* strings (String, AccountId, storage keys and values) are sequences of   *)
(* naturals below 256; Option<T> is the empty sequence (None) or a         *)
(* one-element sequence (Some).                                            *)
(***************************************************************************)
EXTENDS Integers, Sequences, FiniteSets, TLC

(***************************************************************************)
(* Bound of the model: the number of accounts that call the contract.      *)
(***************************************************************************)
NumAccounts == 2

(***************************************************************************)
(* Input universes.                                                        *)
(***************************************************************************)
alice == <<97, 108, 105, 99, 101>>
bob == <<98, 111, 98>>
charlie == <<99, 104, 97, 114, 108, 105, 101>>
danny == <<100, 97, 110, 110, 121>>

accounts(i) == <<alice, bob, charlie, danny>>[i + 1]

Accounts == {accounts(i) : i \in 0..(NumAccounts - 1)}

None == <<>>
Some(v) == <<v>>

\* the tags "" and "x"
Tags == {<<>>, <<120>>}

Urls == {<<117>>, <<118, 119>>}

NFTInfo(c, t) == [contract_id |-> c, token_id |-> t]

NFTs == {NFTInfo(bob, <<48>>), NFTInfo(bob, <<>>)}

Education(s, c, m, st, en) ==
    [school |-> s, college |-> c, major |-> m, started_at |-> st, ended_at |-> en]

MIT == <<77, 73, 84>>

Educations ==
    {Education(MIT, None, None, None, None),
     Education(MIT, Some(<<>>), None, Some(257), None)}

(***************************************************************************)
(* Borsh encoding and decoding of the element types.                       *)
(***************************************************************************)
\* Little-endian bytes, least significant first.  The model's integers stay
\* below 2^31, so the shift by 32 bits is two divisions by 2^16.
U32LE(n) ==
    <<n % 256, (n \div 256) % 256, (n \div 65536) % 256, (n \div 16777216) % 256>>

U64LE(n) == U32LE(n) \o U32LE((n \div 65536) \div 65536)

BorshString(s) == U32LE(Len(s)) \o s

BorshOptString(o) == IF o = None THEN <<0>> ELSE <<1>> \o BorshString(o[1])

BorshOptU64(o) == IF o = None THEN <<0>> ELSE <<1>> \o U64LE(o[1])

BorshNFTInfo(n) == BorshString(n.contract_id) \o BorshString(n.token_id)

BorshEducation(e) ==
    BorshString(e.school) \o BorshOptString(e.college) \o BorshOptString(e.major)
        \o BorshOptU64(e.started_at) \o BorshOptU64(e.ended_at)

Drop(buf, n) == SubSeq(buf, n + 1, Len(buf))

\* from_le_bytes, by Horner's rule from the most significant byte down
ReadU32(buf) ==
    [v |-> buf[1] + 256 * (buf[2] + 256 * (buf[3] + 256 * buf[4])),
     rest |-> Drop(buf, 4)]

ReadU64(buf) ==
    [v |-> buf[1] + 256 * (buf[2] + 256 * (buf[3] + 256 * (buf[4] + 256 * (buf[5]
             + 256 * (buf[6] + 256 * (buf[7] + 256 * buf[8])))))),
     rest |-> Drop(buf, 8)]

ReadString(buf) ==
    LET n == ReadU32(buf)
    IN [v |-> SubSeq(n.rest, 1, n.v), rest |-> Drop(n.rest, n.v)]

ReadOptString(buf) ==
    IF buf[1] = 0 THEN [v |-> None, rest |-> Tail(buf)]
    ELSE LET r == ReadString(Tail(buf)) IN [v |-> Some(r.v), rest |-> r.rest]

ReadOptU64(buf) ==
    IF buf[1] = 0 THEN [v |-> None, rest |-> Tail(buf)]
    ELSE LET r == ReadU64(Tail(buf)) IN [v |-> Some(r.v), rest |-> r.rest]

UnborshString(buf) == ReadString(buf).v

UnborshNFTInfo(buf) ==
    LET c == ReadString(buf)
        t == ReadString(c.rest)
    IN NFTInfo(c.v, t.v)

UnborshEducation(buf) ==
    LET s == ReadString(buf)
        c == ReadOptString(s.rest)
        m == ReadOptString(c.rest)
        st == ReadOptU64(m.rest)
        en == ReadOptU64(st.rest)
    IN Education(s.v, c.v, m.v, st.v, en.v)

(***************************************************************************)
(* The host's key/value storage and near_sdk::collections::UnorderedSet,   *)
(* the type of the eight collections of Profile.                           *)
(***************************************************************************)
VARIABLES contract_state, storage, last, hist, contract2

vars == <<contract_state, storage, last, hist, contract2>>

storage_has_key(st, k) == k \in DOMAIN st

storage_write(st, k, v) ==
    [x \in (DOMAIN st) \cup {k} |-> IF x = k THEN v ELSE st[x]]

\* UnorderedSet::new(prefix): the index map lives under prefix ++ "i", the
\* element vector under prefix ++ "e" and starts with length 0.
UnorderedSetNew(prefix) ==
    [element_index_prefix |-> prefix \o <<105>>,
     elements |-> [len |-> 0, prefix |-> prefix \o <<101>>]]

\* one key for every index of the vector
index_to_lookup_key_no_index(vec, index) == vec.prefix


index_to_lookup_key(vec, index) == vec.prefix \o U64LE(index)

raw_element_to_index_lookup(set, raw) == set.element_index_prefix \o raw

\* insert without the lookup of the element's index key
InsertRaw_no_lookup(set, st, raw) ==
    LET index_lookup == raw_element_to_index_lookup(set, raw)
        next_index == set.elements.len
        st1 == storage_write(st, index_lookup, U64LE(next_index))
        st2 == storage_write(st1, index_to_lookup_key(set.elements, next_index), raw)
    IN [set |-> [set EXCEPT !.elements.len = next_index + 1], st |-> st2, ret |-> TRUE]

\* insert that writes the element but leaves the vector's length as it was
InsertRaw_keeps_len(set, st, raw) ==
    LET index_lookup == raw_element_to_index_lookup(set, raw)
    IN IF storage_has_key(st, index_lookup)
       THEN [set |-> set, st |-> st, ret |-> FALSE]
       ELSE LET next_index == set.elements.len
                st1 == storage_write(st, index_lookup, U64LE(next_index))
                st2 == storage_write(st1, index_to_lookup_key(set.elements, next_index), raw)
            IN [set |-> set, st |-> st2, ret |-> TRUE]

\* UnorderedSet::insert: a no-op returning false when the element's index
\* key is in the storage, else the element is pushed at the vector's end.
InsertRaw(set, st, raw) ==
    LET index_lookup == raw_element_to_index_lookup(set, raw)
    IN IF storage_has_key(st, index_lookup)
       THEN [set |-> set, st |-> st, ret |-> FALSE]
       ELSE LET next_index == set.elements.len
                st1 == storage_write(st, index_lookup, U64LE(next_index))
                st2 == storage_write(st1, index_to_lookup_key(set.elements, next_index), raw)
            IN [set |-> [set EXCEPT !.elements.len = next_index + 1],
                st |-> st2, ret |-> TRUE]

\* UnorderedSet::to_vec: the raw elements at indices 0 .. len-1, in order.
ToVecRaw(set, st) ==
    [i \in 1..set.elements.len |-> st[index_to_lookup_key(set.elements, i - 1)]]

\* Iteration panics when an index below len has no entry in the storage.
VecConsistent(set, st) ==
    \A i \in 1..set.elements.len :
        storage_has_key(st, index_to_lookup_key(set.elements, i - 1))

(***************************************************************************)
(* Outcomes of a method: Ok with a return value, or a panic with a message.*)
(***************************************************************************)
OK == "ok"
Unauthorized == "Owner's method"
AlreadyInitialized == "The contract has already been initialized"
NotInitialized == "The contract is not initialized"
Inconsistent == "The collection is an inconsistent state"
Unit == "()"

Done(self, st, ret) == [self |-> self, st |-> st, status |-> OK, ret |-> ret]

Panic(self, st, msg) == [self |-> self, st |-> st, status |-> msg, ret |-> Unit]

(***************************************************************************)
(* impl Profile                                                            *)
(***************************************************************************)
\* new with an empty url for an avatar
new_with_avatar(owner_id) ==
    [owner_id |-> owner_id,
     avatar |-> Some(<<>>),
     nfts |-> UnorderedSetNew(<<97>>),
     tags |-> UnorderedSetNew(<<98>>),
     educations |-> UnorderedSetNew(<<99>>),
     jobs |-> UnorderedSetNew(<<100>>),
     poaps |-> UnorderedSetNew(<<101>>),
     comments |-> UnorderedSetNew(<<102>>),
     following |-> UnorderedSetNew(<<103>>),
     follow_by |-> UnorderedSetNew(<<104>>),
     last_update_at |-> None]


new(owner_id) ==
    [owner_id |-> owner_id,
     avatar |-> None,
     nfts |-> UnorderedSetNew(<<97>>),
     tags |-> UnorderedSetNew(<<98>>),
     educations |-> UnorderedSetNew(<<99>>),
     jobs |-> UnorderedSetNew(<<100>>),
     poaps |-> UnorderedSetNew(<<101>>),
     comments |-> UnorderedSetNew(<<102>>),
     following |-> UnorderedSetNew(<<103>>),
     follow_by |-> UnorderedSetNew(<<104>>),
     last_update_at |-> None]

get_owner_id(self, st) == Done(self, st, self.owner_id)

\* add_avatar assigning the wrong field
add_avatar_sets_owner(self, st, predecessor, url) ==
    IF self.owner_id # predecessor
    THEN Panic(self, st, Unauthorized)
    ELSE Done([self EXCEPT !.owner_id = url], st, Unit)

\* add_avatar keeping an avatar that is already set
add_avatar_keeps_first(self, st, predecessor, url) ==
    IF self.owner_id # predecessor
    THEN Panic(self, st, Unauthorized)
    ELSE Done([self EXCEPT !.avatar = IF self.avatar = None THEN Some(url) ELSE self.avatar],
              st, Unit)


\* add_avatar stamping the update
add_avatar_stamps(self, st, predecessor, url) ==
    IF self.owner_id # predecessor
    THEN Panic(self, st, Unauthorized)
    ELSE Done([self EXCEPT !.avatar = Some(url), !.last_update_at = Some(1)], st, Unit)


add_avatar(self, st, predecessor, url) ==
    IF self.owner_id # predecessor
    THEN Panic(self, st, Unauthorized)
    ELSE Done([self EXCEPT !.avatar = Some(url)], st, Unit)

get_avatar(self, st) == Done(self, st, self.avatar)

\* add_nft without its require!
add_nft_unchecked(self, st, predecessor, nft) ==
    LET r == InsertRaw(self.nfts, st, BorshNFTInfo(nft))
    IN Done([self EXCEPT !.nfts = r.set], r.st, Unit)


\* add_nft that keeps one nft at most
add_nft_capped(self, st, predecessor, nft) ==
    IF self.owner_id # predecessor
    THEN Panic(self, st, Unauthorized)
    ELSE IF self.nfts.elements.len >= 1
         THEN Done(self, st, Unit)
         ELSE LET r == InsertRaw(self.nfts, st, BorshNFTInfo(nft))
              IN Done([self EXCEPT !.nfts = r.set], r.st, Unit)


add_nft(self, st, predecessor, nft) ==
    IF self.owner_id # predecessor
    THEN Panic(self, st, Unauthorized)
    ELSE LET r == InsertRaw(self.nfts, st, BorshNFTInfo(nft))
         IN Done([self EXCEPT !.nfts = r.set], r.st, Unit)

get_nfts(self, st) ==
    IF ~VecConsistent(self.nfts, st)
    THEN Panic(self, st, Inconsistent)
    ELSE LET raw == ToVecRaw(self.nfts, st)
         IN Done(self, st, [i \in DOMAIN raw |-> UnborshNFTInfo(raw[i])])

\* add_tag with the owner's require! of the other mutators
add_tag_owner_only(self, st, predecessor, tag) ==
    IF self.owner_id # predecessor
    THEN Panic(self, st, Unauthorized)
    ELSE LET r == InsertRaw(self.tags, st, BorshString(tag))
         IN Done([self EXCEPT !.tags = r.set], r.st, Unit)

\* add_tag returning without the insert when the caller is not the owner
add_tag_skips_others(self, st, predecessor, tag) ==
    IF self.owner_id # predecessor
    THEN Done(self, st, Unit)
    ELSE LET r == InsertRaw(self.tags, st, BorshString(tag))
         IN Done([self EXCEPT !.tags = r.set], r.st, Unit)


add_tag(self, st, predecessor, tag) ==
    LET r == InsertRaw(self.tags, st, BorshString(tag))
    IN Done([self EXCEPT !.tags = r.set], r.st, Unit)

\* get_tags that notes in the storage that the tags were read
get_tags_marks_read(self, st) ==
    IF ~VecConsistent(self.tags, st)
    THEN Panic(self, st, Inconsistent)
    ELSE LET raw == ToVecRaw(self.tags, st)
         IN Done(self, storage_write(st, <<98, 114>>, <<1>>),
                 [i \in DOMAIN raw |-> UnborshString(raw[i])])


get_tags(self, st) ==
    IF ~VecConsistent(self.tags, st)
    THEN Panic(self, st, Inconsistent)
    ELSE LET raw == ToVecRaw(self.tags, st)
         IN Done(self, st, [i \in DOMAIN raw |-> UnborshString(raw[i])])

\* add_education without the owner check
add_education_unchecked(self, st, predecessor, edu) ==
    LET r == InsertRaw(self.educations, st, BorshEducation(edu))
    IN Done([self EXCEPT !.educations = r.set], r.st, Unit)

\* add_education inserting into the tags
add_education_wrong_set(self, st, predecessor, edu) ==
    IF self.owner_id # predecessor
    THEN Panic(self, st, Unauthorized)
    ELSE LET r == InsertRaw(self.tags, st, BorshEducation(edu))
         IN Done([self EXCEPT !.tags = r.set], r.st, Unit)


\* add_education inserting into the jobs
add_education_into_jobs(self, st, predecessor, edu) ==
    IF self.owner_id # predecessor
    THEN Panic(self, st, Unauthorized)
    ELSE LET r == InsertRaw(self.jobs, st, BorshEducation(edu))
         IN Done([self EXCEPT !.jobs = r.set], r.st, Unit)


add_education(self, st, predecessor, edu) ==
    IF self.owner_id # predecessor
    THEN Panic(self, st, Unauthorized)
    ELSE LET r == InsertRaw(self.educations, st, BorshEducation(edu))
         IN Done([self EXCEPT !.educations = r.set], r.st, Unit)

get_educations(self, st) ==
    IF ~VecConsistent(self.educations, st)
    THEN Panic(self, st, Inconsistent)
    ELSE LET raw == ToVecRaw(self.educations, st)
         IN Done(self, st, [i \in DOMAIN raw |-> UnborshEducation(raw[i])])

(***************************************************************************)
(* The contract's entry points, as near_bindgen exports them: the struct   *)
(* is read from the STATE key (PanicOnDefault: a panic when there is none),*)
(* the method runs, and a &mut self method's struct is written back.  A    *)
(* panic fails the call and the host discards whatever the call wrote.     *)
(* contract2 is a second Profile struct, which only the unit tests build:  *)
(* the deployed contract has none.                                         *)
(***************************************************************************)
state_exists == contract_state # None

CallRecord(op, caller, arg, r) ==
    [op |-> op, caller |-> caller, arg |-> arg, status |-> r.status, ret |-> r.ret]

\* a &mut self method: the struct and the storage are committed on return
Mutating(op, caller, arg, r) ==
    /\ contract_state' = IF r.status = OK THEN Some(r.self) ELSE contract_state
    /\ storage' = IF r.status = OK THEN r.st ELSE storage
    /\ last' = CallRecord(op, caller, arg, r)
    /\ contract2' = contract2

\* a &self method: the struct is not written back
View(op, caller, arg, r) ==
    /\ contract_state' = contract_state
    /\ storage' = IF r.status = OK THEN r.st ELSE storage
    /\ last' = CallRecord(op, caller, arg, r)
    /\ contract2' = contract2

Uninit == Panic(None, storage, NotInitialized)

\* hist is the record of the calls made, kept for the properties below:
\* the owner_id argument of the successful new, the url argument of the latest
\* successful add_avatar, and the avatar that call replaced.

Init ==
    /\ contract_state = None
    /\ storage = [k \in {} |-> <<>>]
    /\ last = [op |-> "deploy", caller |-> accounts(0), arg |-> Unit,
               status |-> OK, ret |-> Unit]
    /\ hist = [init_owner |-> None, avatar |-> None, replaced |-> None]
    /\ contract2 = None

\* new with #[init(ignore_state)]: no check of the STATE key
Call_new_ignore_state ==
    \E caller \in Accounts, owner_id \in Accounts :
        LET r == Done(new(owner_id), storage, Unit)
        IN /\ Mutating("new", caller, owner_id, r)
           /\ hist' = [hist EXCEPT !.init_owner = Some(owner_id)]

\* #[init] new: refused when the STATE key is occupied
Call_new ==
    \E caller \in Accounts, owner_id \in Accounts :
        LET r == IF state_exists
                 THEN Panic(None, storage, AlreadyInitialized)
                 ELSE Done(new(owner_id), storage, Unit)
        IN /\ Mutating("new", caller, owner_id, r)
           /\ hist' = IF r.status = OK
                      THEN [hist EXCEPT !.init_owner = Some(owner_id)]
                      ELSE hist

Call_get_owner_id ==
    \E caller \in Accounts :
        LET r == IF state_exists THEN get_owner_id(contract_state[1], storage) ELSE Uninit
        IN View("get_owner_id", caller, Unit, r) /\ UNCHANGED hist

Call_add_avatar ==
    \E caller \in Accounts, url \in Urls :
        LET r == IF state_exists
                 THEN add_avatar(contract_state[1], storage, caller, url)
                 ELSE Uninit
        IN /\ Mutating("add_avatar", caller, url, r)
           /\ hist' = IF r.status = OK
                      THEN [hist EXCEPT !.avatar = Some(url), !.replaced = hist.avatar]
                      ELSE hist

Call_get_avatar ==
    \E caller \in Accounts :
        LET r == IF state_exists THEN get_avatar(contract_state[1], storage) ELSE Uninit
        IN View("get_avatar", caller, Unit, r) /\ UNCHANGED hist

Call_add_nft ==
    \E caller \in Accounts, nft \in NFTs :
        LET r == IF state_exists
                 THEN add_nft(contract_state[1], storage, caller, nft)
                 ELSE Uninit
        IN Mutating("add_nft", caller, nft, r) /\ UNCHANGED hist

Call_get_nfts ==
    \E caller \in Accounts :
        LET r == IF state_exists THEN get_nfts(contract_state[1], storage) ELSE Uninit
        IN View("get_nfts", caller, Unit, r) /\ UNCHANGED hist

Call_add_tag ==
    \E caller \in Accounts, tag \in Tags :
        LET r == IF state_exists
                 THEN add_tag(contract_state[1], storage, caller, tag)
                 ELSE Uninit
        IN Mutating("add_tag", caller, tag, r) /\ UNCHANGED hist

Call_get_tags ==
    \E caller \in Accounts :
        LET r == IF state_exists THEN get_tags(contract_state[1], storage) ELSE Uninit
        IN View("get_tags", caller, Unit, r) /\ UNCHANGED hist

Call_add_education ==
    \E caller \in Accounts, edu \in Educations :
        LET r == IF state_exists
                 THEN add_education(contract_state[1], storage, caller, edu)
                 ELSE Uninit
        IN Mutating("add_education", caller, edu, r) /\ UNCHANGED hist

Call_get_educations ==
    \E caller \in Accounts :
        LET r == IF state_exists THEN get_educations(contract_state[1], storage) ELSE Uninit
        IN View("get_educations", caller, Unit, r) /\ UNCHANGED hist

Next ==
    \/ Call_new
    \/ Call_get_owner_id
    \/ Call_add_avatar
    \/ Call_get_avatar
    \/ Call_add_nft
    \/ Call_get_nfts
    \/ Call_add_tag
    \/ Call_get_tags
    \/ Call_add_education
    \/ Call_get_educations

Spec == Init /\ [][Next]_vars

(***************************************************************************)
(* What a caller can observe of the profile in the current state.          *)
(***************************************************************************)
Range(seq) == {seq[i] : i \in DOMAIN seq}

NoDuplicates(seq) == \A i, j \in DOMAIN seq : seq[i] = seq[j] => i = j

profile == contract_state[1]

OwnerId == get_owner_id(profile, storage).ret

Avatar == get_avatar(profile, storage).ret

NftList == get_nfts(profile, storage).ret

TagList == get_tags(profile, storage).ret

EducationList == get_educations(profile, storage).ret

\* the five collections without a method, read as to_vec reads them
JobList == ToVecRaw(profile.jobs, storage)

PoapList == ToVecRaw(profile.poaps, storage)

CommentList == ToVecRaw(profile.comments, storage)

FollowingList == ToVecRaw(profile.following, storage)

FollowByList == ToVecRaw(profile.follow_by, storage)

GatedOps == {"add_avatar", "add_nft", "add_education"}

ReadOps == {"get_owner_id", "get_avatar", "get_nfts", "get_tags", "get_educations"}

AddOps == {"add_nft", "add_tag", "add_education"}

\* the list that matches an add operation
ListOf(op) ==
    CASE op = "add_nft" -> NftList
      [] op = "add_tag" -> TagList
      [] op = "add_education" -> EducationList

\* the same observations in the state after a step
NftListNext == get_nfts(contract_state'[1], storage').ret

TagListNext == get_tags(contract_state'[1], storage').ret

EducationListNext == get_educations(contract_state'[1], storage').ret

ListOfNext(op) ==
    CASE op = "add_nft" -> NftListNext
      [] op = "add_tag" -> TagListNext
      [] op = "add_education" -> EducationListNext

\* the raw elements of a collection before and after a step
RawList(c) == ToVecRaw(contract_state[1][c], storage)

RawListNext(c) == ToVecRaw(contract_state'[1][c], storage')

UnusedCollections == {"jobs", "poaps", "comments", "following", "follow_by"}

ProfileUnchanged == contract_state' = contract_state /\ storage' = storage

(***************************************************************************)
(* C1: a gated mutator (add_avatar, add_nft, add_education) called by an   *)
(* identity other than the owner fails with "Owner's method" and leaves    *)
(* the struct and the storage of the collections exactly as they were.     *)
(***************************************************************************)
C1_UnauthorizedLeavesState ==
    [][(state_exists /\ last'.op \in GatedOps /\ last'.caller # OwnerId)
          => (last'.status = Unauthorized /\ ProfileUnchanged)]_vars

C1_Witness ==
    /\ state_exists
    /\ last.op = "add_education"
    /\ last.caller # OwnerId
    /\ last.status = Unauthorized
    /\ Len(EducationList) = 1
    /\ last.arg \in Range(EducationList)

(***************************************************************************)
(* C2: get_owner_id returns the owner_id that the successful new was given,*)
(* whatever calls were made since.                                         *)
(***************************************************************************)
C2_OwnerFixed ==
    state_exists => (hist.init_owner # None /\ OwnerId = hist.init_owner[1])

C2_Witness ==
    /\ state_exists
    /\ OwnerId = accounts(1)
    /\ last.op = "new"
    /\ last.status = AlreadyInitialized
    /\ last.arg # OwnerId
    /\ Avatar # None
    /\ Len(TagList) = 2

(***************************************************************************)
(* C3: a method called on an initialized profile returns or panics with    *)
(* "Owner's method", and it panics exactly when it is a gated mutator and  *)
(* the caller is not the owner.  (last holds a method call made on an      *)
(* initialized profile when the state exists and last.op is a method.)     *)
(***************************************************************************)
C3_OnlyUnauthorized ==
    (state_exists /\ last.op \in GatedOps \cup ReadOps \cup {"add_tag"})
        => /\ last.status \in {OK, Unauthorized}
           /\ last.status = Unauthorized
                <=> (last.op \in GatedOps /\ last.caller # OwnerId)

C3_Witness ==
    /\ state_exists
    /\ last.op = "add_avatar"
    /\ last.caller = OwnerId
    /\ last.status = OK
    /\ Len(NftList) = 2

(***************************************************************************)
(* C4: right after a successful new(owner_id) the owner is owner_id, the   *)
(* avatar and last_update_at are None and all eight collections are empty. *)
(***************************************************************************)
C4_FreshProfile ==
    (last.op = "new" /\ last.status = OK)
        => /\ state_exists
           /\ OwnerId = last.arg
           /\ Avatar = None
           /\ profile.last_update_at = None
           /\ NftList = <<>> /\ TagList = <<>> /\ EducationList = <<>>
           /\ JobList = <<>> /\ PoapList = <<>> /\ CommentList = <<>>
           /\ FollowingList = <<>> /\ FollowByList = <<>>

C4_Witness == last.op = "new" /\ last.status = OK /\ OwnerId = accounts(1)

(***************************************************************************)
(* C5: insert is idempotent for add_tag, add_nft and add_education: a      *)
(* successful add of a value the list already holds changes nothing, and   *)
(* no list ever holds two equal elements.                                  *)
(***************************************************************************)
C5_IdempotentInsert ==
    /\ [](state_exists =>
            NoDuplicates(NftList) /\ NoDuplicates(TagList) /\ NoDuplicates(EducationList))
    /\ [][(state_exists /\ last'.op \in AddOps /\ last'.status = OK
             /\ last'.arg \in Range(ListOf(last'.op)))
            => ProfileUnchanged]_vars

C5_Witness ==
    /\ state_exists
    /\ last.op = "add_education"
    /\ last.status = OK
    /\ Len(EducationList) = 2
    /\ last.arg = EducationList[1]

(***************************************************************************)
(* C6: after a successful add of v the matching list holds v and every     *)
(* element it held before, and it is one longer when v was absent and as   *)
(* long as before when v was present.                                      *)
(***************************************************************************)
C6_AddThenList ==
    [][(state_exists /\ last'.op \in AddOps /\ last'.status = OK)
          => LET before == ListOf(last'.op)
                 after == ListOfNext(last'.op)
                 v == last'.arg
             IN /\ v \in Range(after)
                /\ Range(before) \subseteq Range(after)
                /\ Len(after) = Len(before) + (IF v \in Range(before) THEN 0 ELSE 1)]_vars

C6_Witness ==
    /\ state_exists
    /\ last.op = "add_nft"
    /\ last.status = OK
    /\ Len(NftList) = 2
    /\ last.arg = NftList[2]
    /\ Len(TagList) = 1

(***************************************************************************)
(* C7: get_avatar returns the url of the latest successful add_avatar, or  *)
(* None when none has succeeded; a second add_avatar replaces the first.   *)
(***************************************************************************)
C7_AvatarIsLatest ==
    /\ state_exists => Avatar = hist.avatar
    /\ ~state_exists => hist.avatar = None

C7_Witness ==
    /\ state_exists
    /\ hist.replaced # None
    /\ hist.replaced # hist.avatar
    /\ last.op = "add_avatar"
    /\ last.status = Unauthorized
    /\ Some(last.arg) = hist.replaced

(***************************************************************************)
(* C8: add_tag returns and inserts the tag for every caller, the owner or  *)
(* not, and the read methods return for every caller.                      *)
(***************************************************************************)
C8_OpenAccess ==
    /\ (state_exists /\ last.op = "add_tag")
          => (last.status = OK /\ last.arg \in Range(TagList))
    /\ (state_exists /\ last.op \in ReadOps) => last.status = OK

C8_Witness ==
    /\ state_exists
    /\ last.op = "add_tag"
    /\ last.caller # OwnerId
    /\ last.status = OK
    /\ TagList = <<last.arg>>

(***************************************************************************)
(* C9: collections only grow: an element of any of the eight collections   *)
(* is still an element of it, equal in value, after every step.  (A step   *)
(* that leaves the struct and the storage as they were leaves every list   *)
(* as it was; the lists are compared across the other steps.)              *)
(***************************************************************************)
C9_OnlyGrow ==
    [][state_exists
          => \/ ProfileUnchanged
             \/ /\ Range(NftList) \subseteq Range(NftListNext)
                /\ Range(TagList) \subseteq Range(TagListNext)
                /\ Range(EducationList) \subseteq Range(EducationListNext)
                /\ \A c \in UnusedCollections :
                       Range(RawList(c)) \subseteq Range(RawListNext(c))]_vars

C9_Witness ==
    /\ state_exists
    /\ Len(NftList) = 2
    /\ Len(TagList) = 2
    /\ Len(EducationList) = 2
    /\ last.op = "add_education"
    /\ last.status = OK
    /\ last.arg = EducationList[2]

(***************************************************************************)
(* C10: new called when the contract already holds a profile fails with    *)
(* "The contract has already been initialized" and leaves the profile's    *)
(* owner, avatar and collections as they were.                             *)
(***************************************************************************)
C10_NoReinit ==
    [][(state_exists /\ last'.op = "new")
          => (last'.status = AlreadyInitialized /\ ProfileUnchanged)]_vars

C10_Witness ==
    /\ state_exists
    /\ last.op = "new"
    /\ last.status = AlreadyInitialized
    /\ last.arg # OwnerId
    /\ Avatar # None
    /\ Len(NftList) = 1

(***************************************************************************)
(* The unit tests' setting (tests::test_nfts): Profile::new is called as a *)
(* plain constructor, once for contract and later for contract2, and both  *)
(* structs run their methods against the one mocked storage that           *)
(* testing_env! set up.  A panic ends the test.                            *)
(***************************************************************************)
Instance(i) == IF i = 1 THEN contract_state ELSE contract2

TestStep(i, op, caller, arg, r) ==
    /\ contract_state' = IF i = 1 /\ r.status = OK THEN Some(r.self) ELSE contract_state
    /\ contract2' = IF i = 2 /\ r.status = OK THEN Some(r.self) ELSE contract2
    /\ storage' = IF r.status = OK THEN r.st ELSE storage
    /\ last' = [inst |-> i, op |-> op, caller |-> caller, arg |-> arg,
                status |-> r.status, ret |-> r.ret]
    /\ hist' = hist

TestRunning == last.status = OK

Test_new_contract ==
    /\ TestRunning
    /\ contract_state = None
    /\ \E caller \in Accounts, owner_id \in Accounts :
           TestStep(1, "new", caller, owner_id, Done(new(owner_id), storage, Unit))

Test_new_contract2 ==
    /\ TestRunning
    /\ contract_state # None
    /\ contract2 = None
    /\ \E caller \in Accounts, owner_id \in Accounts :
           TestStep(2, "new", caller, owner_id, Done(new(owner_id), storage, Unit))

Test_add_nft ==
    /\ TestRunning
    /\ \E i \in {1, 2}, caller \in Accounts, nft \in NFTs :
           /\ Instance(i) # None
           /\ TestStep(i, "add_nft", caller, nft,
                       add_nft(Instance(i)[1], storage, caller, nft))

Test_get_nfts ==
    /\ TestRunning
    /\ \E i \in {1, 2}, caller \in Accounts :
           /\ Instance(i) # None
           /\ LET r == get_nfts(Instance(i)[1], storage)
              IN TestStep(i, "get_nfts", caller, Unit, [r EXCEPT !.self = Instance(i)[1]])

Test_add_tag ==
    /\ TestRunning
    /\ \E i \in {1, 2}, caller \in Accounts, tag \in Tags :
           /\ Instance(i) # None
           /\ TestStep(i, "add_tag", caller, tag,
                       add_tag(Instance(i)[1], storage, caller, tag))

Test_get_tags ==
    /\ TestRunning
    /\ \E i \in {1, 2}, caller \in Accounts :
           /\ Instance(i) # None
           /\ LET r == get_tags(Instance(i)[1], storage)
              IN TestStep(i, "get_tags", caller, Unit, [r EXCEPT !.self = Instance(i)[1]])

TestNext ==
    \/ Test_new_contract
    \/ Test_new_contract2
    \/ Test_add_nft
    \/ Test_get_nfts
    \/ Test_add_tag
    \/ Test_get_tags

TestSpec == Init /\ [][TestNext]_vars

\* the lists of instance i, read from the given struct and storage
NftsOf(inst, st) == IF inst = None THEN <<>> ELSE get_nfts(inst[1], st).ret

TagsOf(inst, st) == IF inst = None THEN <<>> ELSE get_tags(inst[1], st).ret

(***************************************************************************)
(* C11: cross-instance isolation: a successful add_nft or add_tag on one   *)
(* Profile leaves the matching list of the other Profile as it was, and    *)
(* the added value is in the list of the Profile it was added to, also     *)
(* when the other Profile holds the same value already.                    *)
(***************************************************************************)
C11_Isolation ==
    [][(last'.op \in {"add_nft", "add_tag"} /\ last'.status = OK)
          => LET i == last'.inst
                 mine == IF i = 1 THEN contract_state' ELSE contract2'
                 theirs == IF i = 1 THEN contract2 ELSE contract_state
                 theirsNext == IF i = 1 THEN contract2' ELSE contract_state'
             IN IF last'.op = "add_nft"
                THEN /\ NftsOf(theirsNext, storage') = NftsOf(theirs, storage)
                     /\ last'.arg \in Range(NftsOf(mine, storage'))
                ELSE /\ TagsOf(theirsNext, storage') = TagsOf(theirs, storage)
                     /\ last'.arg \in Range(TagsOf(mine, storage'))]_vars

\* what read method op returns in the current state
ReadNow(op) ==
    CASE op = "get_owner_id" -> OwnerId
      [] op = "get_avatar" -> Avatar
      [] op = "get_nfts" -> NftList
      [] op = "get_tags" -> TagList
      [] op = "get_educations" -> EducationList

(***************************************************************************)
(* C12: a read method leaves the struct and the storage as they were; what *)
(* it returned is what the same read returns in the state it leaves (so    *)
(* until a write changes the state every read of a collection returns the  *)
(* same sequence in the same order), and a read that directly follows the  *)
(* same read returns the same value.                                       *)
(***************************************************************************)
C12_ReadsPure ==
    /\ []((state_exists /\ last.op \in ReadOps)
            => (last.status = OK /\ last.ret = ReadNow(last.op)))
    /\ [][(state_exists /\ last'.op \in ReadOps) => ProfileUnchanged]_vars
    /\ [][(state_exists /\ last.op \in ReadOps /\ last'.op = last.op)
            => last'.ret = last.ret]_vars

C12_Witness ==
    /\ state_exists
    /\ last.op = "get_tags"
    /\ last.caller # OwnerId
    /\ last.status = OK
    /\ Len(last.ret) = 2
    /\ last.ret = TagList
    /\ Len(NftList) = 1

(***************************************************************************)
(* The call surface beyond impl Profile.  The struct declares jobs, poaps, *)
(* comments, following and follow_by, and impl Profile exports no method   *)
(* for them: a call of add_job, add_poap, add_comment or add_following     *)
(* resolves to no method of the contract and fails without running any     *)
(* code of it.                                                             *)
(***************************************************************************)
Job(c, p, d, st, en) ==
    [company |-> c, position |-> p, desc |-> d, started_at |-> st, ended_at |-> en]

Comment(c, d, u) == [commentator |-> c, detail |-> d, update_at |-> u]

BorshJob(j) ==
    BorshString(j.company) \o BorshOptString(j.position) \o BorshOptString(j.desc)
        \o BorshOptU64(j.started_at) \o BorshOptU64(j.ended_at)

BorshComment(c) ==
    BorshString(c.commentator) \o BorshString(c.detail) \o BorshOptU64(c.update_at)

MethodNotFound == "MethodNotFound"

UnexportedOps == {"add_job", "add_poap", "add_comment", "add_following"}

Unexported(op, caller, arg) ==
    /\ Mutating(op, caller, arg, Panic(None, storage, MethodNotFound))
    /\ UNCHANGED hist

Call_add_job ==
    \E caller \in Accounts, job \in {Job(MIT, None, None, None, None)} :
        Unexported("add_job", caller, job)

Call_add_poap ==
    \E caller \in Accounts, poap \in NFTs : Unexported("add_poap", caller, poap)

Call_add_comment ==
    \E caller \in Accounts, comment \in {Comment(alice, <<120>>, None)} :
        Unexported("add_comment", caller, comment)

Call_add_following ==
    \E caller \in Accounts, account \in Accounts :
        Unexported("add_following", caller, account)

SurfaceNext ==
    \/ Next
    \/ Call_add_job
    \/ Call_add_poap
    \/ Call_add_comment
    \/ Call_add_following

SurfaceSpec == Init /\ [][SurfaceNext]_vars

\* the collection an add operation of the stated pattern writes, and the
\* bytes it stores for its argument
PatternList(op) ==
    CASE op = "add_job" -> JobList
      [] op = "add_poap" -> PoapList
      [] op = "add_comment" -> CommentList
      [] op = "add_following" -> FollowingList

PatternBytes(op, arg) ==
    CASE op = "add_job" -> BorshJob(arg)
      [] op = "add_poap" -> BorshNFTInfo(arg)
      [] op = "add_comment" -> BorshComment(arg)
      [] op = "add_following" -> BorshString(arg)

Occurrences(seq, x) == Cardinality({i \in DOMAIN seq : seq[i] = x})

(***************************************************************************)
(* C13: add_job, add_poap and add_following fail with "Owner's method" for *)
(* a caller other than the owner, and otherwise (and add_comment for every *)
(* caller) return and leave exactly one occurrence of the added value in   *)
(* the matching collection.                                                *)
(***************************************************************************)
C13_PatternAdds ==
    (state_exists /\ last.op \in UnexportedOps)
        => IF last.op # "add_comment" /\ last.caller # OwnerId
           THEN last.status = Unauthorized
           ELSE /\ last.status = OK
                /\ Occurrences(PatternList(last.op), PatternBytes(last.op, last.arg)) = 1

(***************************************************************************)
(* C14: no operation stamps last_update_at: it is None in every state of   *)
(* an initialized profile.                                                 *)
(***************************************************************************)
C14_NeverStamped == state_exists => profile.last_update_at = None

C14_Witness ==
    /\ state_exists
    /\ profile.last_update_at = None
    /\ hist.replaced # None
    /\ Len(NftList) = 2
    /\ Len(TagList) = 2
    /\ Len(EducationList) = 2
    /\ last.status = Unauthorized

(***************************************************************************)
(* Two adds made one after the other by the owner, from a given struct and *)
(* storage.                                                                *)
(***************************************************************************)
AddArgs(op) ==
    CASE op = "add_nft" -> NFTs
      [] op = "add_tag" -> Tags
      [] op = "add_education" -> Educations

ApplyAdd(self, st, op, arg) ==
    CASE op = "add_nft" -> add_nft(self, st, self.owner_id, arg)
      [] op = "add_tag" -> add_tag(self, st, self.owner_id, arg)
      [] op = "add_education" -> add_education(self, st, self.owner_id, arg)

ApplyTwo(self, st, op1, arg1, op2, arg2) ==
    LET r == ApplyAdd(self, st, op1, arg1)
    IN ApplyAdd(r.self, r.st, op2, arg2)

\* the scalar fields and the set of elements of every collection
Contents(self, st) ==
    [owner_id |-> get_owner_id(self, st).ret,
     avatar |-> get_avatar(self, st).ret,
     last_update_at |-> self.last_update_at,
     nfts |-> Range(get_nfts(self, st).ret),
     tags |-> Range(get_tags(self, st).ret),
     educations |-> Range(get_educations(self, st).ret),
     jobs |-> Range(ToVecRaw(self.jobs, st)),
     poaps |-> Range(ToVecRaw(self.poaps, st)),
     comments |-> Range(ToVecRaw(self.comments, st)),
     following |-> Range(ToVecRaw(self.following, st)),
     follow_by |-> Range(ToVecRaw(self.follow_by, st))]

(***************************************************************************)
(* C15: insertion order is not observable in the contents: from every      *)
(* reachable state of the profile, two adds (add_nft, add_tag or           *)
(* add_education, to one collection or to two) made in either order both   *)
(* succeed and leave the same set of elements in every collection and the  *)
(* same scalar fields.  Every value of the struct and the storage is first *)
(* reached by a successful new or add, so the two orders are compared in   *)
(* the states that follow one.                                             *)
(***************************************************************************)
C15_OrderNotObservable ==
    (state_exists /\ last.status = OK /\ last.op \notin ReadOps) =>
        \A op1, op2 \in AddOps :
            \A arg1 \in AddArgs(op1), arg2 \in AddArgs(op2) :
                LET r12 == ApplyTwo(profile, storage, op1, arg1, op2, arg2)
                    r21 == ApplyTwo(profile, storage, op2, arg2, op1, arg1)
                IN /\ r12.status = OK
                   /\ r21.status = OK
                   /\ Contents(r12.self, r12.st) = Contents(r21.self, r21.st)

\* after a successful add_nft with no tag yet, the two orders of two tags
\* give two different lists with the same elements
C15_Witness ==
    /\ state_exists
    /\ last.op = "add_nft"
    /\ last.status = OK
    /\ TagList = <<>>
    /\ LET r12 == ApplyTwo(profile, storage, "add_tag", <<120>>, "add_tag", <<>>)
           r21 == ApplyTwo(profile, storage, "add_tag", <<>>, "add_tag", <<120>>)
       IN /\ get_tags(r12.self, r12.st).ret = <<<<120>>, <<>>>>
          /\ get_tags(r21.self, r21.st).ret = <<<<>>, <<120>>>>
          /\ Contents(r12.self, r12.st) = Contents(r21.self, r21.st)

AvatarNext == get_avatar(contract_state'[1], storage').ret

(***************************************************************************)
(* C16: provenance of the owner-gated data.  A new profile starts with no  *)
(* avatar, no nft and no education; after that, a step that changes the    *)
(* nfts is an add_nft call made by the owner and adds nothing but its      *)
(* argument, a step that changes the educations is an add_education call   *)
(* made by the owner and adds nothing but its argument, a step that        *)
(* changes the avatar is an add_avatar call made by the owner and sets it  *)
(* to its argument; a call made by another identity leaves avatar, nfts    *)
(* and educations as they were.  So every element and a present avatar is  *)
(* the argument of an earlier call by the owner.                           *)
(***************************************************************************)
C16_Provenance ==
    [][IF ~state_exists
       THEN state_exists'
                => /\ AvatarNext = None
                   /\ NftListNext = <<>>
                   /\ EducationListNext = <<>>
       ELSE \/ ProfileUnchanged
            \/ /\ NftListNext # NftList
                      => /\ last'.op = "add_nft"
                         /\ last'.caller = OwnerId
                         /\ Range(NftListNext) \subseteq Range(NftList) \cup {last'.arg}
               /\ EducationListNext # EducationList
                      => /\ last'.op = "add_education"
                         /\ last'.caller = OwnerId
                         /\ Range(EducationListNext)
                                \subseteq Range(EducationList) \cup {last'.arg}
               /\ AvatarNext # Avatar
                      => /\ last'.op = "add_avatar"
                         /\ last'.caller = OwnerId
                         /\ AvatarNext = Some(last'.arg)
               /\ last'.caller # OwnerId
                      => /\ AvatarNext = Avatar
                         /\ NftListNext = NftList
                         /\ EducationListNext = EducationList]_vars

\* an identity other than the owner has just tried to add an education to a
\* profile that holds the owner's avatar, nft and education
C16_Witness ==
    /\ state_exists
    /\ last.op = "add_education"
    /\ last.caller # OwnerId
    /\ last.status = Unauthorized
    /\ Avatar # None
    /\ Len(NftList) = 1
    /\ Len(EducationList) = 1
    /\ last.arg \notin Range(EducationList)
    /\ Len(TagList) = 2

Mutators == {"add_avatar", "add_nft", "add_tag", "add_education"}

\* the field of Profile a mutator assigns
OwnField(op) ==
    CASE op = "add_avatar" -> "avatar"
      [] op = "add_nft" -> "nfts"
      [] op = "add_tag" -> "tags"
      [] op = "add_education" -> "educations"

\* a storage key of the collection held in a field: it starts with the prefix
\* new gives the field
KeyOf(k, field) == k[1] = new(bob)[field].elements.prefix[1]

(***************************************************************************)
(* C17: a successful mutator changes only its own field.  After            *)
(* add_avatar, add_nft, add_tag or add_education has succeeded, every      *)
(* field of the profile but the one the mutator assigns has the value it   *)
(* had, every storage entry outside the mutator's own collection is the    *)
(* one it was (add_avatar leaves the whole storage as it was), and the     *)
(* owner, the avatar and the lists of the other collections read as they   *)
(* did.                                                                    *)
(***************************************************************************)
C17_OwnFieldOnly ==
    [][(state_exists /\ last'.op \in Mutators /\ last'.status = OK)
          => LET own == OwnField(last'.op)
             IN \/ ProfileUnchanged
                \/ /\ \A f \in (DOMAIN profile) \ {own} :
                          contract_state'[1][f] = profile[f]
                   /\ \A k \in (DOMAIN storage) \cup (DOMAIN storage') :
                          (own = "avatar" \/ ~KeyOf(k, own))
                              => /\ k \in DOMAIN storage
                                 /\ k \in DOMAIN storage'
                                 /\ storage'[k] = storage[k]
                   /\ get_owner_id(contract_state'[1], storage').ret = OwnerId
                   /\ own # "avatar" => AvatarNext = Avatar
                   /\ own # "nfts" => NftListNext = NftList
                   /\ own # "tags" => TagListNext = TagList
                   /\ own # "educations" => EducationListNext = EducationList
                   /\ \A c \in UnusedCollections : RawListNext(c) = RawList(c)]_vars

\* the owner has just added a second education to a profile that holds an
\* avatar, two nfts and two tags
C17_Witness ==
    /\ state_exists
    /\ last.op = "add_education"
    /\ last.status = OK
    /\ Len(EducationList) = 2
    /\ EducationList[2] = last.arg
    /\ Avatar # None
    /\ Len(NftList) = 2
    /\ Len(TagList) = 2

(***************************************************************************)
(* C18: jobs, poaps, comments, following and follow_by are empty in every  *)
(* reachable state of a profile: each has length 0, lists no element and   *)
(* has no entry in the storage.                                            *)
(***************************************************************************)
C18_UnusedEmpty ==
    state_exists =>
        \A c \in UnusedCollections :
            /\ profile[c] = new(OwnerId)[c]
            /\ profile[c].elements.len = 0
            /\ RawList(c) = <<>>
            /\ \A k \in DOMAIN storage : ~KeyOf(k, c)

\* every operation that writes has been used: the avatar was replaced, the
\* three collections hold two elements each, the last add was made by
\* another identity than the owner
C18_Witness ==
    /\ state_exists
    /\ JobList = <<>>
    /\ FollowByList = <<>>
    /\ hist.replaced # None
    /\ Len(NftList) = 2
    /\ Len(TagList) = 2
    /\ Len(EducationList) = 2
    /\ last.op = "add_tag"
    /\ last.caller # OwnerId
    /\ last.status = OK

====
